---- MODULE Spec2Model ----
(***************************************************************************)
(* Token lifecycle of reddit-mcp: OAuthServer (authenticate, the loopback  *)
(* authorization flow, the token file), RedditOAuth (code exchange and     *)
(* refresh against the token endpoint) and TokenManager (lazy refresh).    *)
(* Time is in milliseconds, as Date.now() is.  Every await on the network  *)
(* or on the file system is a step boundary; code between two awaits runs  *)
(* as one step, as it does on the single-threaded event loop.              *)
(***************************************************************************)
EXTENDS Integers, Sequences, FiniteSets, TLC

\* ---------------------------------------------------------------- bounds
MaxTicks == 2
MaxRequests == 2
MaxHandlers == 2
NumCallers == 2
MaxCalls == 1
MaxLen == 4

\* ------------------------------------------------------ program constants
refreshBuffer == 5 * 60 * 1000
FlowTimeoutMs == 5 * 60 * 1000

\* ------------------------------------------------------ modelling values
TickMs == 300000
StartNow == 600000
Callers == 1..NumCallers
HandlerIds == 1..MaxHandlers
NoRT == 0
NoToken == 0
NoStatus == 0
ScopeGranted == "identity read"
ExpiresInChoices == {1, 600}
StoredExpiresAtChoices == {0, StartNow, StartNow + 1000, StartNow + TickMs}
GeneratedStates == {"S1", "S2"}
ErrorParams == {"", "access_denied"}
CodeParams == {"", "abc"}
StateParams == {"", "S1", "S2"}
Requests == [path : {"/callback"}, error : ErrorParams, code : CodeParams, state : StateParams] \cup [path : {"/favicon.ico"}, error : {""}, code : {"abc"}, state : {"S1"}]

\* StoredToken (types/reddit.ts)
StoredToken(at, rt, exp, sc) == [accessToken |-> at, refreshToken |-> rt, expiresAt |-> exp, scope |-> sc]

\* RedditTokenResponseSchema: refresh_token is optional (NoRT when absent)
TokenResponse(at, rt, ein) == [access_token |-> at, refresh_token |-> rt, expires_in |-> ein, scope |-> ScopeGranted]

\* ------------------------------------------------------------ token file
FileKeys == <<"accessToken", "refreshToken", "expiresAt", "scope">>
FileMissing == [kind |-> "missing", keys |-> <<>>, vals |-> <<>>]
FileCorrupt == [kind |-> "corrupt", keys |-> <<>>, vals |-> <<>>]

\* (variant: the two token members are written under each other's key)
StringifySwapped(tok) == [kind |-> "json", keys |-> FileKeys, vals |-> <<tok.refreshToken, tok.accessToken, tok.expiresAt, tok.scope>>]

\* JSON.stringify(token, null, 2): the members in declaration order
Stringify(tok) == [kind |-> "json", keys |-> FileKeys, vals |-> <<tok.accessToken, tok.refreshToken, tok.expiresAt, tok.scope>>]

KeyIndex(keys, k) == CHOOSE i \in 1..Len(keys) : keys[i] = k

\* JSON.parse(data): a member is looked up by its key
JsonParse(file) == [accessToken |-> file.vals[KeyIndex(file.keys, "accessToken")], refreshToken |-> file.vals[KeyIndex(file.keys, "refreshToken")], expiresAt |-> file.vals[KeyIndex(file.keys, "expiresAt")], scope |-> file.vals[KeyIndex(file.keys, "scope")]]

\* (variant: an unreadable file yields an empty credential instead of null)
loadTokenEmptyCredential(file) == IF file.kind = "json" THEN <<JsonParse(file)>> ELSE <<StoredToken(NoToken, NoRT, 0, "")>>

\* OAuthServer.loadToken: null (<<>>) when readFile or JSON.parse throws
loadToken(file) == IF file.kind = "json" THEN <<JsonParse(file)>> ELSE <<>>

\* ------------------------------------------------------------ RedditOAuth
\* (variant: the refresh token of the response is taken without a fallback)
refreshAccessTokenResultNoFallback(resp, refreshToken, t) == StoredToken(resp.access_token, resp.refresh_token, t + resp.expires_in * 1000, resp.scope)

\* refreshAccessToken: the credential built from a parsed response
refreshAccessTokenResult(resp, refreshToken, t) == StoredToken(resp.access_token, IF resp.refresh_token # NoRT THEN resp.refresh_token ELSE refreshToken, t + resp.expires_in * 1000, resp.scope)

\* exchangeCodeForToken: throws when the response has no refresh_token
exchangeThrowsNoRefresh(resp) == resp.refresh_token = NoRT

\* (variant: the lifetime in seconds is added to milliseconds unconverted)
exchangeCodeForTokenResultSeconds(resp, t) == StoredToken(resp.access_token, resp.refresh_token, t + resp.expires_in, resp.scope)

\* exchangeCodeForToken: the credential built from a parsed response
exchangeCodeForTokenResult(resp, t) == StoredToken(resp.access_token, resp.refresh_token, t + resp.expires_in * 1000, resp.scope)

\* ----------------------------------------------------------- TokenManager
\* (variant: the lead-time test admits the boundary)
NeedsRefreshInclusive(tok, t) == tok.expiresAt - t <= refreshBuffer

\* (variant: renewal only once the token has expired)
NeedsRefreshExpiredOnly(tok, t) == tok.expiresAt - t < 0

\* getToken: the lead-time test
NeedsRefresh(tok, t) == tok.expiresAt - t < refreshBuffer

\* ----------------------------------------------------------- OAuthServer
\* (variant: the comparison is reversed)
ExistingValidReversed(tok, t) == tok.expiresAt < t

\* authenticate: the stored credential is still usable
ExistingValid(tok, t) == tok.expiresAt > t

\* (variant: every path is taken for the callback path)
IsCallbackPathAny(pathname) == pathname \in {"/callback", "/favicon.ico"}

\* request handler: the path test
IsCallbackPath(pathname) == pathname = "/callback"

\* (variant: the state comparison is left out)
InvalidCallbackCodeOnly(code, returnedState, state) == code = ""

\* request handler: the code/state validation
InvalidCallback(code, returnedState, state) == code = "" \/ returnedState # state

VARIABLES now, disk, diskWrites, issued, apc, existing, refreshed, authResult, flowRuns, flowState, listening, listenerBound, browserLaunches, closeCalls, outcome, timerArmed, deadline, handlers, exchangeReqs, lastReq, lastStatus, token, pc, result, sent, notified, renewed, savesPending, savesFailed, listenerCalls, refreshReqs, env, mpc, exitCode, tmCalls, client, serverUp, listed, calls, errText, page, pageFor

vars == <<now, disk, diskWrites, issued, apc, existing, refreshed, authResult, flowRuns, flowState, listening, listenerBound, browserLaunches, closeCalls, outcome, timerArmed, deadline, handlers, exchangeReqs, lastReq, lastStatus, token, pc, result, sent, notified, renewed, savesPending, savesFailed, listenerCalls, refreshReqs, env, mpc, exitCode, tmCalls, client, serverUp, listed, calls, errText, page, pageFor>>

\* variables of the callers of TokenManager.getToken
callerVars == <<pc, result, sent, notified, renewed>>
\* variables of the fire-and-forget saves started by the update listener
saveVars == <<savesPending, savesFailed, listenerCalls>>
\* variables a running flow never re-assigns
flowSetup == <<flowRuns, flowState, listenerBound, browserLaunches, deadline>>
\* variables of main, of RedditMCPServer and of RedditClient
appVars == <<env, mpc, exitCode, tmCalls, client, serverUp, listed, calls>>
\* variables of the rendering of the failure page
pageVars == <<errText, page, pageFor>>
\* variables outside OAuthServer, RedditOAuth and TokenManager
extVars == <<appVars, pageVars>>

NoOutcome == [st |-> "none", err |-> "", tok |-> <<>>]
FreeHandler == [st |-> "free", tok |-> <<>>]

InitialFiles == {FileMissing, FileCorrupt} \cup {Stringify(StoredToken(1, 1, e, ScopeGranted)) : e \in StoredExpiresAtChoices}

\* requests sent to the provider token endpoint so far
TokenRequests == refreshReqs + exchangeReqs

\* responses the token endpoint can give to the next request
Responses == {TokenResponse(issued + 1, rt, ein) : rt \in {NoRT, issued + 1}, ein \in ExpiresInChoices}

\* main has not called process.exit
Running == apc # "fatal"

\* the setTimeout callback is due
TimerDue == timerArmed /\ now >= deadline

\* the event loop runs a timer that is overdue before it runs any I/O callback
TimersFirst == ~(timerArmed /\ now > deadline)

\* errors: the class of the object thrown and its message in two parts
NoError == [class |-> "", prefix |-> "", detail |-> ""]
Err(class, prefix, detail) == [class |-> class, prefix |-> prefix, detail |-> detail]

\* the tools/call requests of a run, each with the state of its handling
CallIds == 1..MaxCalls
FreeCall == [req |-> <<>>, st |-> "free", invoked |-> <<>>, bearer |-> <<>>, sentRT |-> <<>>, reply |-> <<>>, error |-> NoError]

\* main is suspended in `await oauthServer.getTokenManager()`: no client, no
\* tool server yet
MainAwaiting ==
    /\ env = [clientId |-> "id", clientSecret |-> "secret", manualToken |-> NoToken]
    /\ mpc = "awaitTokenManager"
    /\ exitCode = <<>>
    /\ tmCalls = 1
    /\ client = <<>>
    /\ serverUp = FALSE
    /\ listed = <<>>
    /\ calls = [k \in CallIds |-> FreeCall]

\* no failure page is being rendered
PageIdle ==
    /\ errText = <<>>
    /\ page = <<>>
    /\ pageFor = ""

Init ==
    /\ now = StartNow
    /\ disk \in InitialFiles
    /\ diskWrites = 0
    /\ issued = 1
    /\ apc = "load"
    /\ existing = <<>>
    /\ refreshed = <<>>
    /\ authResult = <<>>
    /\ flowRuns = 0
    /\ flowState = ""
    /\ listening = FALSE
    /\ listenerBound = FALSE
    /\ browserLaunches = 0
    /\ closeCalls = 0
    /\ outcome = NoOutcome
    /\ timerArmed = FALSE
    /\ deadline = 0
    /\ handlers = [h \in HandlerIds |-> FreeHandler]
    /\ exchangeReqs = 0
    /\ lastReq = <<>>
    /\ lastStatus = NoStatus
    /\ token = <<>>
    /\ pc = [c \in Callers |-> "idle"]
    /\ result = [c \in Callers |-> NoToken]
    /\ sent = [c \in Callers |-> <<>>]
    /\ notified = [c \in Callers |-> 0]
    /\ renewed = [c \in Callers |-> <<>>]
    /\ savesPending = {}
    /\ savesFailed = {}
    /\ listenerCalls = 0
    /\ refreshReqs = 0
    /\ MainAwaiting
    /\ PageIdle

\* the clock advances between steps
Tick ==
    /\ Running
    /\ ~TimerDue
    /\ now < StartNow + MaxTicks * TickMs
    /\ now' = now + TickMs
    /\ UNCHANGED <<disk, diskWrites, issued, apc, existing, refreshed, authResult, flowSetup, listening, closeCalls, outcome, timerArmed, handlers, exchangeReqs, lastReq, lastStatus, token, callerVars, saveVars, refreshReqs, extVars>>

\* ------------------------------------------------- OAuthServer.authenticate
\* startOAuthFlow up to the point where the promise is pending: state is
\* generated, the listener is bound, the browser launch is attempted and the
\* 5-minute timer is armed
startOAuthFlow ==
    /\ flowState' \in GeneratedStates
    /\ flowRuns' = flowRuns + 1
    /\ listening' = TRUE
    /\ listenerBound' = TRUE
    /\ browserLaunches' = browserLaunches + 1
    /\ outcome' = [st |-> "pending", err |-> "", tok |-> <<>>]
    /\ timerArmed' = TRUE
    /\ deadline' = now + FlowTimeoutMs
    /\ apc' = "flow"

\* authenticate, from loadToken to its first network await or its return
AuthLoad ==
    /\ apc = "load"
    /\ existing' = loadToken(disk)
    /\ \/ /\ existing' # <<>>
          /\ ExistingValid(existing'[1], now)
          /\ apc' = "done"
          /\ authResult' = existing'
          /\ token' = existing'
          /\ UNCHANGED <<flowSetup, listening, outcome, timerArmed, refreshReqs>>
       \/ /\ existing' # <<>>
          /\ ~ExistingValid(existing'[1], now)
          /\ TokenRequests < MaxRequests
          /\ apc' = "startupRefresh"
          /\ refreshReqs' = refreshReqs + 1
          /\ UNCHANGED <<authResult, token, flowSetup, listening, outcome, timerArmed>>
       \/ /\ existing' = <<>>
          /\ startOAuthFlow
          /\ UNCHANGED <<authResult, token, refreshReqs>>
    /\ UNCHANGED <<now, disk, diskWrites, issued, refreshed, closeCalls, handlers, exchangeReqs, lastReq, lastStatus, callerVars, saveVars, extVars>>

\* authenticate: refreshAccessToken(existing.refreshToken) returned resp
StartupRefreshOkWith(resp) ==
    /\ apc = "startupRefresh"
    /\ refreshed' = <<refreshAccessTokenResult(resp, existing[1].refreshToken, now)>>
    /\ issued' = issued + 1
    /\ apc' = "startupSave"
    /\ UNCHANGED <<now, disk, diskWrites, existing, authResult, flowSetup, listening, closeCalls, outcome, timerArmed, handlers, exchangeReqs, lastReq, lastStatus, token, callerVars, saveVars, refreshReqs, extVars>>

\* authenticate: refreshAccessToken(existing.refreshToken) returned
StartupRefreshOk == \E resp \in Responses : StartupRefreshOkWith(resp)

\* authenticate: refreshAccessToken threw; the catch falls through to the flow
StartupRefreshFail ==
    /\ apc = "startupRefresh"
    /\ startOAuthFlow
    /\ UNCHANGED <<now, disk, diskWrites, issued, existing, refreshed, authResult, closeCalls, handlers, exchangeReqs, lastReq, lastStatus, token, callerVars, saveVars, refreshReqs, extVars>>

\* authenticate: saveToken(refreshed) completed; the refreshed token is returned
StartupSaveOk ==
    /\ apc = "startupSave"
    /\ disk' = Stringify(refreshed[1])
    /\ diskWrites' = diskWrites + 1
    /\ apc' = "done"
    /\ authResult' = refreshed
    /\ token' = refreshed
    /\ UNCHANGED <<now, issued, existing, refreshed, flowSetup, listening, closeCalls, outcome, timerArmed, handlers, exchangeReqs, lastReq, lastStatus, callerVars, saveVars, refreshReqs, extVars>>

\* authenticate: saveToken(refreshed) threw inside the try; the same catch
\* falls through to the flow
StartupSaveFail ==
    /\ apc = "startupSave"
    /\ startOAuthFlow
    /\ UNCHANGED <<now, disk, diskWrites, issued, existing, refreshed, authResult, closeCalls, handlers, exchangeReqs, lastReq, lastStatus, token, callerVars, saveVars, refreshReqs, extVars>>

\* ------------------------------------------------ OAuthServer.startOAuthFlow
\* message of the Error the handler rejects with for an error parameter
OAuthErrorMessage(error) == "OAuth error: " \o error

\* server.close()
serverClose ==
    /\ listening' = FALSE
    /\ closeCalls' = closeCalls + 1

\* resolve(token): settles the promise if it is still pending; authenticate
\* then returns the token to getTokenManager, which builds the TokenManager
resolve(tok) ==
    IF outcome.st = "pending"
    THEN /\ outcome' = [st |-> "resolved", err |-> "", tok |-> <<tok>>]
         /\ apc' = "done"
         /\ authResult' = <<tok>>
         /\ token' = <<tok>>
    ELSE UNCHANGED <<outcome, apc, authResult, token>>

\* (variant: a rejection replaces an outcome already settled)
rejectOverwrites(err) ==
    /\ outcome' = [st |-> "rejected", err |-> err, tok |-> <<>>]
    /\ apc' = "fatal"
    /\ UNCHANGED <<authResult, token>>

\* reject(err): settles the promise if it is still pending; the rejection
\* leaves authenticate, getTokenManager and main, whose catch exits
reject(err) ==
    IF outcome.st = "pending"
    THEN /\ outcome' = [st |-> "rejected", err |-> err, tok |-> <<>>]
         /\ apc' = "fatal"
         /\ UNCHANGED <<authResult, token>>
    ELSE UNCHANGED <<outcome, apc, authResult, token>>

\* (variant: the code/state validation comes before the error check)
HandlerBranchValidateFirst(req, state) ==
    IF ~IsCallbackPath(req.path) THEN "notFound"
    ELSE IF InvalidCallback(req.code, req.state, state) THEN "invalid"
    ELSE IF req.error # "" THEN "providerError"
    ELSE "exchange"

\* the branch the request handler takes: path test, error check, validation
HandlerBranch(req, state) ==
    IF ~IsCallbackPath(req.path) THEN "notFound"
    ELSE IF req.error # "" THEN "providerError"
    ELSE IF InvalidCallback(req.code, req.state, state) THEN "invalid"
    ELSE "exchange"

\* the first free slot for a suspended request handler
FreeSlots == {h \in HandlerIds : handlers[h].st = "free"}

\* the request handler, from the arrival of a request to its first await or
\* its return
HandleRequest(req) ==
    /\ Running
    /\ TimersFirst
    /\ listening
    /\ lastReq' = <<req>>
    /\ \/ /\ HandlerBranch(req, flowState) = "notFound"
          /\ lastStatus' = 404
          /\ UNCHANGED <<listening, closeCalls, outcome, apc, authResult, token, handlers, exchangeReqs>>
       \/ /\ HandlerBranch(req, flowState) = "providerError"
          /\ lastStatus' = 400
          /\ serverClose
          /\ reject(OAuthErrorMessage(req.error))
          /\ UNCHANGED <<handlers, exchangeReqs>>
       \/ /\ HandlerBranch(req, flowState) = "invalid"
          /\ lastStatus' = 400
          /\ serverClose
          /\ reject("Invalid callback parameters")
          /\ UNCHANGED <<handlers, exchangeReqs>>
       \/ /\ HandlerBranch(req, flowState) = "exchange"
          /\ FreeSlots # {}
          /\ TokenRequests < MaxRequests
          /\ LET h == CHOOSE x \in FreeSlots : \A y \in FreeSlots : x <= y
             IN handlers' = [handlers EXCEPT ![h] = [st |-> "exchanging", tok |-> <<>>]]
          /\ exchangeReqs' = exchangeReqs + 1
          /\ UNCHANGED <<listening, closeCalls, outcome, apc, authResult, token, lastStatus>>
    /\ UNCHANGED <<now, disk, diskWrites, issued, existing, refreshed, flowSetup, timerArmed, callerVars, saveVars, refreshReqs, extVars>>

\* handler h: the token endpoint answered the exchange with resp
ExchangeOkWith(h, resp) ==
    /\ Running
    /\ TimersFirst
    /\ handlers[h].st = "exchanging"
    /\ issued' = issued + 1
    /\ \/ /\ exchangeThrowsNoRefresh(resp)
          /\ handlers' = [handlers EXCEPT ![h] = [st |-> "done", tok |-> <<>>]]
          /\ lastStatus' = 500
          /\ serverClose
          /\ reject("No refresh token received. Ensure duration=permanent in auth request.")
       \/ /\ ~exchangeThrowsNoRefresh(resp)
          /\ handlers' = [handlers EXCEPT ![h] = [st |-> "saving", tok |-> <<exchangeCodeForTokenResult(resp, now)>>]]
          /\ UNCHANGED <<listening, closeCalls, outcome, apc, authResult, token, lastStatus>>
    /\ UNCHANGED <<now, disk, diskWrites, existing, refreshed, flowSetup, timerArmed, exchangeReqs, lastReq, callerVars, saveVars, refreshReqs, extVars>>

\* handler h: exchangeCodeForToken returned or threw on a missing refresh_token
ExchangeOk(h) == \E resp \in Responses : ExchangeOkWith(h, resp)

\* (variant: the catch rejects without closing the server)
ExchangeFailNoClose(h) ==
    /\ Running
    /\ TimersFirst
    /\ handlers[h].st = "exchanging"
    /\ handlers' = [handlers EXCEPT ![h] = [st |-> "done", tok |-> <<>>]]
    /\ lastStatus' = 500
    /\ reject("Token request failed")
    /\ UNCHANGED <<now, disk, diskWrites, issued, existing, refreshed, flowSetup, listening, closeCalls, timerArmed, exchangeReqs, lastReq, callerVars, saveVars, refreshReqs, extVars>>

\* handler h: the token request failed (network error, status, schema)
ExchangeFail(h) ==
    /\ Running
    /\ TimersFirst
    /\ handlers[h].st = "exchanging"
    /\ handlers' = [handlers EXCEPT ![h] = [st |-> "done", tok |-> <<>>]]
    /\ serverClose
    /\ reject("Token request failed")
    /\ lastStatus' = 500
    /\ UNCHANGED <<now, disk, diskWrites, issued, existing, refreshed, flowSetup, timerArmed, exchangeReqs, lastReq, callerVars, saveVars, refreshReqs, extVars>>

\* handler h: saveToken(token) completed; success page, close, resolve
FlowSaveOk(h) ==
    /\ Running
    /\ TimersFirst
    /\ handlers[h].st = "saving"
    /\ disk' = Stringify(handlers[h].tok[1])
    /\ diskWrites' = diskWrites + 1
    /\ handlers' = [handlers EXCEPT ![h] = [st |-> "done", tok |-> handlers[h].tok]]
    /\ serverClose
    /\ resolve(handlers[h].tok[1])
    /\ lastStatus' = 200
    /\ UNCHANGED <<now, issued, existing, refreshed, flowSetup, timerArmed, exchangeReqs, lastReq, callerVars, saveVars, refreshReqs, extVars>>

\* handler h: saveToken(token) threw inside the try; error page, close, reject
FlowSaveFail(h) ==
    /\ Running
    /\ TimersFirst
    /\ handlers[h].st = "saving"
    /\ handlers' = [handlers EXCEPT ![h] = [st |-> "done", tok |-> handlers[h].tok]]
    /\ serverClose
    /\ reject("writeFile failed")
    /\ lastStatus' = 500
    /\ UNCHANGED <<now, disk, diskWrites, issued, existing, refreshed, flowSetup, timerArmed, exchangeReqs, lastReq, callerVars, saveVars, refreshReqs, extVars>>

\* (variant: the timer callback closes the listener and leaves the promise)
FlowTimeoutNoReject ==
    /\ Running
    /\ timerArmed
    /\ now >= deadline
    /\ timerArmed' = FALSE
    /\ serverClose
    /\ UNCHANGED <<outcome, apc, authResult, token>>
    /\ UNCHANGED <<now, disk, diskWrites, issued, existing, refreshed, flowSetup, handlers, exchangeReqs, lastReq, lastStatus, callerVars, saveVars, refreshReqs, extVars>>

\* (variant: the timer fires without waiting for its delay)
FlowTimeoutEarly ==
    /\ Running
    /\ timerArmed
    /\ timerArmed' = FALSE
    /\ serverClose
    /\ reject("Authentication timeout after 5 minutes")
    /\ UNCHANGED <<now, disk, diskWrites, issued, existing, refreshed, flowSetup, handlers, exchangeReqs, lastReq, lastStatus, callerVars, saveVars, refreshReqs, extVars>>

\* the setTimeout callback, which is never cleared
FlowTimeout ==
    /\ Running
    /\ timerArmed
    /\ now >= deadline
    /\ timerArmed' = FALSE
    /\ serverClose
    /\ reject("Authentication timeout after 5 minutes")
    /\ UNCHANGED <<now, disk, diskWrites, issued, existing, refreshed, flowSetup, handlers, exchangeReqs, lastReq, lastStatus, callerVars, saveVars, refreshReqs, extVars>>

\* ----------------------------------------------------------- TokenManager
\* getToken, from the call to the await of refresh or to its return
GetToken(c) ==
    /\ apc = "done"
    /\ TimersFirst
    /\ pc[c] # "refreshing"
    /\ notified' = [notified EXCEPT ![c] = 0]
    /\ renewed' = [renewed EXCEPT ![c] = <<>>]
    /\ \/ /\ NeedsRefresh(token[1], now)
          /\ TokenRequests < MaxRequests
          /\ pc' = [pc EXCEPT ![c] = "refreshing"]
          /\ sent' = [sent EXCEPT ![c] = <<token[1].refreshToken>>]
          /\ refreshReqs' = refreshReqs + 1
          /\ result' = [result EXCEPT ![c] = NoToken]
       \/ /\ ~NeedsRefresh(token[1], now)
          /\ pc' = [pc EXCEPT ![c] = "returned"]
          /\ result' = [result EXCEPT ![c] = token[1].accessToken]
          /\ sent' = [sent EXCEPT ![c] = <<>>]
          /\ UNCHANGED refreshReqs
    /\ UNCHANGED <<now, disk, diskWrites, issued, apc, existing, refreshed, authResult, flowSetup, listening, closeCalls, outcome, timerArmed, handlers, exchangeReqs, lastReq, lastStatus, token, saveVars, extVars>>

\* (variant: no listener is registered)
onTokenUpdateUnregistered(updated) ==
    /\ savesPending' = savesPending
    /\ listenerCalls' = listenerCalls

\* the update listener bound by getTokenManager: saveToken is started and
\* not awaited
onTokenUpdate(updated) ==
    /\ savesPending' = savesPending \cup {updated}
    /\ listenerCalls' = listenerCalls + 1

\* refresh resumed with the response resp: the token is replaced, the
\* listener is called, getToken returns the new access token
RefreshOkWith(c, resp) ==
    /\ pc[c] = "refreshing"
    /\ TimersFirst
    /\ issued' = issued + 1
    /\ token' = <<refreshAccessTokenResult(resp, sent[c][1], now)>>
    /\ onTokenUpdate(token'[1])
    /\ notified' = [notified EXCEPT ![c] = notified[c] + 1]
    /\ renewed' = [renewed EXCEPT ![c] = token']
    /\ pc' = [pc EXCEPT ![c] = "returned"]
    /\ result' = [result EXCEPT ![c] = token'[1].accessToken]
    /\ UNCHANGED <<now, disk, diskWrites, apc, existing, refreshed, authResult, flowSetup, listening, closeCalls, outcome, timerArmed, handlers, exchangeReqs, lastReq, lastStatus, sent, savesFailed, refreshReqs, extVars>>

\* refresh resumed with a response
RefreshOk(c) == \E resp \in Responses : RefreshOkWith(c, resp)

\* (variant: a failed renewal is sent again)
RefreshFailRetry(c) ==
    /\ pc[c] = "refreshing"
    /\ TokenRequests < MaxRequests + 1
    /\ refreshReqs' = refreshReqs + 1
    /\ UNCHANGED <<now, disk, diskWrites, issued, apc, existing, refreshed, authResult, flowSetup, listening, closeCalls, outcome, timerArmed, handlers, exchangeReqs, lastReq, lastStatus, token, callerVars, saveVars, extVars>>

\* refreshAccessToken threw: the error leaves refresh and getToken
RefreshFail(c) ==
    /\ pc[c] = "refreshing"
    /\ TimersFirst
    /\ pc' = [pc EXCEPT ![c] = "failed"]
    /\ UNCHANGED <<now, disk, diskWrites, issued, apc, existing, refreshed, authResult, flowSetup, listening, closeCalls, outcome, timerArmed, handlers, exchangeReqs, lastReq, lastStatus, token, result, sent, notified, renewed, saveVars, refreshReqs, extVars>>

\* a write started by the listener reaches the file
ListenerSaveOk(s) ==
    /\ s \in savesPending
    /\ TimersFirst
    /\ savesPending' = savesPending \ {s}
    /\ disk' = Stringify(s)
    /\ diskWrites' = diskWrites + 1
    /\ UNCHANGED <<now, issued, apc, existing, refreshed, authResult, flowSetup, listening, closeCalls, outcome, timerArmed, handlers, exchangeReqs, lastReq, lastStatus, token, callerVars, savesFailed, listenerCalls, refreshReqs, extVars>>

\* a write started by the listener fails: the catch logs it (one console.error
\* per element of savesFailed)
ListenerSaveFail(s) ==
    /\ s \in savesPending
    /\ TimersFirst
    /\ savesPending' = savesPending \ {s}
    /\ savesFailed' = savesFailed \cup {s}
    /\ UNCHANGED <<now, disk, diskWrites, issued, apc, existing, refreshed, authResult, flowSetup, listening, closeCalls, outcome, timerArmed, handlers, exchangeReqs, lastReq, lastStatus, token, callerVars, listenerCalls, refreshReqs, extVars>>

Next ==
    \/ Tick
    \/ AuthLoad
    \/ StartupRefreshOk
    \/ StartupRefreshFail
    \/ StartupSaveOk
    \/ StartupSaveFail
    \/ \E req \in Requests : HandleRequest(req)
    \/ \E h \in HandlerIds : ExchangeOk(h)
    \/ \E h \in HandlerIds : ExchangeFail(h)
    \/ \E h \in HandlerIds : FlowSaveOk(h)
    \/ \E h \in HandlerIds : FlowSaveFail(h)
    \/ FlowTimeout
    \/ \E c \in Callers : GetToken(c)
    \/ \E c \in Callers : RefreshOk(c)
    \/ \E c \in Callers : RefreshFail(c)
    \/ \E s \in savesPending : ListenerSaveOk(s)
    \/ \E s \in savesPending : ListenerSaveFail(s)

Spec == Init /\ [][Next]_vars

\* the same program with the scheduling the runtime guarantees: time passes,
\* and the event loop runs the callback of a timer that is due
FairSpec == Spec /\ WF_vars(Tick) /\ WF_vars(FlowTimeout)

\* ================================================= RedditMCPServer (server.ts)
\* JSON values of tool arguments
Absent == [type |-> "undefined", s |-> "", n |-> 0]
Str(x) == [type |-> "string", s |-> x, n |-> 0]
Num(k) == [type |-> "number", s |-> "", n |-> k]
Bool(b) == [type |-> "boolean", s |-> IF b THEN "true" ELSE "false", n |-> 0]

\* every key of the ten parameter schemas, and one key none of them has
Fields == {"postId", "commentLimit", "commentSort", "subreddit", "time", "limit", "query", "sort", "username", "title", "text", "url", "flair_id", "flair_text", "nsfw", "spoiler", "thingId", "direction", "extra"}

\* members of a zod object schema (types/reddit.ts)
RStr(f, req, minLen) == [field |-> f, required |-> req, kind |-> "string", lo |-> minLen, hi |-> 0, enum |-> {}]
RNum(f, req, min, max) == [field |-> f, required |-> req, kind |-> "number", lo |-> min, hi |-> max, enum |-> {}]
REnum(f, req, values) == [field |-> f, required |-> req, kind |-> "enum", lo |-> 0, hi |-> 0, enum |-> values]
RBool(f, req) == [field |-> f, required |-> req, kind |-> "boolean", lo |-> 0, hi |-> 0, enum |-> {}]
RUrl(f, req) == [field |-> f, required |-> req, kind |-> "url", lo |-> 0, hi |-> 0, enum |-> {}]

TimeEnum == {"hour", "day", "week", "month", "year", "all"}
GetPostSchema == {RStr("postId", TRUE, 1), RNum("commentLimit", FALSE, 0, 500), REnum("commentSort", FALSE, {"confidence", "top", "new", "controversial", "old", "qa"})}
GetTopPostsSchema == {RStr("subreddit", TRUE, 1), REnum("time", FALSE, TimeEnum), RNum("limit", FALSE, 1, 100)}
SearchSchema == {RStr("query", TRUE, 1), RStr("subreddit", FALSE, 0), REnum("sort", FALSE, {"relevance", "hot", "top", "new", "comments"}), REnum("time", FALSE, TimeEnum), RNum("limit", FALSE, 1, 100)}
GetSubredditInfoSchema == {RStr("subreddit", TRUE, 1)}
GetUserInfoSchema == {RStr("username", TRUE, 1)}
CreatePostSchema == {RStr("subreddit", TRUE, 1), RStr("title", TRUE, 1), RStr("text", FALSE, 0), RUrl("url", FALSE), RStr("flair_id", FALSE, 0), RStr("flair_text", FALSE, 0), RBool("nsfw", FALSE), RBool("spoiler", FALSE)}
ReplySchema == {RStr("thingId", TRUE, 1), RStr("text", TRUE, 1)}
EditSchema == {RStr("thingId", TRUE, 1), RStr("text", TRUE, 1)}
DeleteSchema == {RStr("thingId", TRUE, 1)}
VoteSchema == {RStr("thingId", TRUE, 1), REnum("direction", TRUE, {"1", "0", "-1"})}

\* strings the URL constructor accepts, among those the model uses
ValidUrls == {"https://example.com/a"}

\* one member of a schema applied to a value that is present
FieldOk(rule, v) ==
    CASE rule.kind = "string" -> v.type = "string" /\ (rule.lo = 0 \/ v.s # "")
      [] rule.kind = "url" -> v.type = "string" /\ v.s \in ValidUrls
      [] rule.kind = "number" -> v.type = "number" /\ v.n >= rule.lo /\ v.n <= rule.hi
      [] rule.kind = "enum" -> v.type = "string" /\ v.s \in rule.enum
      [] rule.kind = "boolean" -> v.type = "boolean"

\* Schema.parse(args) does not throw a ZodError
SchemaAccepts(schema, args) == \A rule \in schema : IF args[rule.field] = Absent THEN ~rule.required ELSE FieldOk(rule, args[rule.field])

\* the object Schema.parse(args) returns: the members of the schema, unknown
\* keys stripped
Parsed(schema, args) == [f \in Fields |-> IF f \in {rule.field : rule \in schema} THEN args[f] ELSE Absent]

\* (variant: the arguments are used without validation)
ParseUnchecked(schema, args) == <<Parsed(schema, args)>>

\* Schema.parse(args): <<>> stands for a thrown ZodError
Parse(schema, args) == IF SchemaAccepts(schema, args) THEN <<Parsed(schema, args)>> ELSE <<>>

\* the switch of the tools/call handler: for each case label the schema that
\* parses the arguments, the RedditClient method called and the members of
\* params handed to it
SwitchCases == [
    reddit_get_post |-> [schema |-> GetPostSchema, method |-> "getPost", passes |-> {"postId", "commentLimit", "commentSort"}],
    reddit_get_top_posts |-> [schema |-> GetTopPostsSchema, method |-> "getTopPosts", passes |-> {"subreddit", "time", "limit"}],
    reddit_search |-> [schema |-> SearchSchema, method |-> "search", passes |-> {"query", "subreddit", "sort", "time", "limit"}],
    reddit_get_subreddit_info |-> [schema |-> GetSubredditInfoSchema, method |-> "getSubredditInfo", passes |-> {"subreddit"}],
    reddit_get_user_info |-> [schema |-> GetUserInfoSchema, method |-> "getUserInfo", passes |-> {"username"}],
    reddit_create_post |-> [schema |-> CreatePostSchema, method |-> "createPost", passes |-> {"subreddit", "title", "text", "url", "flair_id", "flair_text", "nsfw", "spoiler"}],
    reddit_reply |-> [schema |-> ReplySchema, method |-> "reply", passes |-> {"thingId", "text"}],
    reddit_edit |-> [schema |-> EditSchema, method |-> "edit", passes |-> {"thingId", "text"}],
    reddit_delete |-> [schema |-> DeleteSchema, method |-> "delete", passes |-> {"thingId"}],
    reddit_vote |-> [schema |-> VoteSchema, method |-> "vote", passes |-> {"thingId", "direction"}]]

\* (variant: a name without a case is handled by the first case)
CaseLabelFirstCase(name) == IF name \in DOMAIN SwitchCases THEN name ELSE "reddit_get_post"

\* switch (name): the case taken, "default" when no label matches
CaseLabel(name) == IF name \in DOMAIN SwitchCases THEN name ELSE "default"

\* the tools of the tools/list reply, each with the required list of its
\* inputSchema, in the order of the array
ToolList == <<
    [name |-> "reddit_get_post", required |-> {"postId"}],
    [name |-> "reddit_get_top_posts", required |-> {"subreddit"}],
    [name |-> "reddit_search", required |-> {"query"}],
    [name |-> "reddit_get_subreddit_info", required |-> {"subreddit"}],
    [name |-> "reddit_get_user_info", required |-> {"username"}],
    [name |-> "reddit_create_post", required |-> {"subreddit", "title"}],
    [name |-> "reddit_reply", required |-> {"thingId", "text"}],
    [name |-> "reddit_edit", required |-> {"thingId", "text"}],
    [name |-> "reddit_delete", required |-> {"thingId"}],
    [name |-> "reddit_vote", required |-> {"thingId", "direction"}]>>

\* (variant: reply and edit call each other's client method)
InvocationSwapped(label, params) == <<[method |-> (IF label = "reddit_reply" THEN "edit" ELSE IF label = "reddit_edit" THEN "reply" ELSE SwitchCases[label].method), args |-> [f \in Fields |-> IF f \in SwitchCases[label].passes THEN params[f] ELSE Absent]]>>

\* the client method call of a case: the method and the arguments it receives
Invocation(label, params) == <<[method |-> SwitchCases[label].method, args |-> [f \in Fields |-> IF f \in SwitchCases[label].passes THEN params[f] ELSE Absent]]>>

\* (variant: the name is looked up and the arguments are parsed before the
\* client is tested)
DispatchClientLast(req) ==
    IF CaseLabel(req.name) = "default" THEN [error |-> Err("Error", "Unknown tool: ", req.name), invoked |-> <<>>]
    ELSE IF Parse(SwitchCases[CaseLabel(req.name)].schema, req.args) = <<>> THEN [error |-> Err("Error", "Invalid parameters: ", "issues"), invoked |-> <<>>]
    ELSE IF client = <<>> THEN [error |-> Err("Error", "Reddit client not initialized.", ""), invoked |-> <<>>]
    ELSE [error |-> NoError, invoked |-> Invocation(CaseLabel(req.name), Parse(SwitchCases[CaseLabel(req.name)].schema, req.args)[1])]

\* the tools/call handler up to the client method call: the error thrown, or
\* the method invoked
Dispatch(req) ==
    IF client = <<>> THEN [error |-> Err("Error", "Reddit client not initialized.", ""), invoked |-> <<>>]
    ELSE IF CaseLabel(req.name) = "default" THEN [error |-> Err("Error", "Unknown tool: ", req.name), invoked |-> <<>>]
    ELSE IF Parse(SwitchCases[CaseLabel(req.name)].schema, req.args) = <<>> THEN [error |-> Err("Error", "Invalid parameters: ", "issues"), invoked |-> <<>>]
    ELSE [error |-> NoError, invoked |-> Invocation(CaseLabel(req.name), Parse(SwitchCases[CaseLabel(req.name)].schema, req.args)[1])]

\* ------------------------------------------------- inputs of tools/call
GoodValue(rule) ==
    CASE rule.kind = "string" -> Str("abc")
      [] rule.kind = "url" -> Str("https://example.com/a")
      [] rule.kind = "number" -> Num(rule.hi)
      [] rule.kind = "enum" -> Str(CHOOSE e \in rule.enum : TRUE)
      [] rule.kind = "boolean" -> Bool(TRUE)

BadValue(rule) ==
    CASE rule.kind = "string" -> (IF rule.lo = 0 THEN Num(rule.lo) ELSE Str(""))
      [] rule.kind = "url" -> Str("not a url")
      [] rule.kind = "number" -> Num(rule.hi + 1)
      [] rule.kind = "enum" -> Str("bogus")
      [] rule.kind = "boolean" -> Str("yes")

\* arguments with a good value for the members in good, a bad one for those
\* in bad, and possibly a key the schema does not know
BuildArgs(good, bad, extra) ==
    [f \in Fields |->
        IF f = "extra" THEN (IF extra THEN Str("x") ELSE Absent)
        ELSE IF \E r \in bad : r.field = f THEN BadValue(CHOOSE r \in bad : r.field = f)
        ELSE IF \E r \in good : r.field = f THEN GoodValue(CHOOSE r \in good : r.field = f)
        ELSE Absent]

RequiredOf(schema) == {r \in schema : r.required}

ArgSamples(schema) ==
    {BuildArgs({}, {}, FALSE), BuildArgs(RequiredOf(schema), {}, FALSE), BuildArgs(schema, {}, FALSE), BuildArgs(RequiredOf(schema), {}, TRUE)}
        \cup {BuildArgs(RequiredOf(schema) \ {r}, {}, FALSE) : r \in RequiredOf(schema)}
        \cup {BuildArgs(RequiredOf(schema), {r}, FALSE) : r \in schema}

UnknownNames == {"reddit_nonexistent", "getPost", ""}

ToolRequests ==
    UNION {{[name |-> n, args |-> a] : a \in ArgSamples(SwitchCases[n].schema)} : n \in DOMAIN SwitchCases}
        \cup {[name |-> n, args |-> a] : n \in UnknownNames, a \in {BuildArgs({}, {}, FALSE), BuildArgs(GetPostSchema, {}, FALSE)}}

\* ================================================ RedditClient (reddit-client.ts)
\* (variant: the interceptor always takes the static access token)
UsesTokenManagerNever(cfg) == FALSE

\* request interceptor: a token manager is configured
UsesTokenManager(cfg) == cfg.tokenManager

\* the body of a 2xx reply of the Reddit API, and JSON.stringify(result, null, 2)
ApiData == {"listing"}
JsonText(d) == "json(" \o d \o ")"

\* the record of the tools/call request req in the given state
Call(req, st, invoked, bearer, sentRT, reply, error) == [req |-> req, st |-> st, invoked |-> invoked, bearer |-> bearer, sentRT |-> sentRT, reply |-> reply, error |-> error]

\* the tools/call handler of the k-th request, from its arrival to its first
\* suspension: dispatch, the client method, the request interceptor and
\* TokenManager.getToken up to the await of the refresh or of the HTTP reply
CallTool(k, req) ==
    /\ mpc = "serving"
    /\ serverUp
    /\ calls[k].st = "free"
    /\ \A j \in CallIds : j < k => calls[j].st # "free"
    /\ IF Dispatch(req).error # NoError
       THEN /\ calls' = [calls EXCEPT ![k] = Call(<<req>>, "failed", <<>>, <<>>, <<>>, <<>>, Dispatch(req).error)]
            /\ UNCHANGED refreshReqs
       ELSE IF ~UsesTokenManager(client[1])
       THEN /\ calls' = [calls EXCEPT ![k] = Call(<<req>>, "sent", Dispatch(req).invoked, <<client[1].accessToken>>, <<>>, <<>>, NoError)]
            /\ UNCHANGED refreshReqs
       ELSE IF ~NeedsRefresh(token[1], now)
       THEN /\ calls' = [calls EXCEPT ![k] = Call(<<req>>, "sent", Dispatch(req).invoked, <<token[1].accessToken>>, <<>>, <<>>, NoError)]
            /\ UNCHANGED refreshReqs
       ELSE /\ TokenRequests < MaxRequests
            /\ calls' = [calls EXCEPT ![k] = Call(<<req>>, "refreshing", Dispatch(req).invoked, <<>>, <<token[1].refreshToken>>, <<>>, NoError)]
            /\ refreshReqs' = refreshReqs + 1
    /\ UNCHANGED <<now, disk, diskWrites, issued, apc, existing, refreshed, authResult, flowSetup, listening, closeCalls, outcome, timerArmed, handlers, exchangeReqs, lastReq, lastStatus, token, callerVars, saveVars, env, mpc, exitCode, tmCalls, client, serverUp, listed, pageVars>>

\* request k: the refresh awaited by getToken returned resp; the held token is
\* replaced, the listener is called, the interceptor sets the header and the
\* HTTP request is sent
CallRefreshOkWith(k, resp) ==
    /\ mpc = "serving"
    /\ calls[k].st = "refreshing"
    /\ issued' = issued + 1
    /\ token' = <<refreshAccessTokenResult(resp, calls[k].sentRT[1], now)>>
    /\ onTokenUpdate(token'[1])
    /\ calls' = [calls EXCEPT ![k] = Call(calls[k].req, "sent", calls[k].invoked, <<token'[1].accessToken>>, calls[k].sentRT, <<>>, NoError)]
    /\ UNCHANGED <<now, disk, diskWrites, apc, existing, refreshed, authResult, flowSetup, listening, closeCalls, outcome, timerArmed, handlers, exchangeReqs, lastReq, lastStatus, callerVars, savesFailed, refreshReqs, env, mpc, exitCode, tmCalls, client, serverUp, listed, pageVars>>

CallRefreshOk(k) == \E resp \in Responses : CallRefreshOkWith(k, resp)

\* request k: the refresh threw; the rejection of the request interceptor
\* skips the dispatch of the HTTP request and reaches the error handler of
\* the response interceptor, which has neither a response nor a request
CallRefreshFail(k) ==
    /\ mpc = "serving"
    /\ calls[k].st = "refreshing"
    /\ calls' = [calls EXCEPT ![k] = Call(calls[k].req, "failed", calls[k].invoked, <<>>, calls[k].sentRT, <<>>, Err("RedditAPIError", "Request failed: ", "Token request failed"))]
    /\ UNCHANGED <<now, disk, diskWrites, issued, apc, existing, refreshed, authResult, flowSetup, listening, closeCalls, outcome, timerArmed, handlers, exchangeReqs, lastReq, lastStatus, token, callerVars, saveVars, refreshReqs, env, mpc, exitCode, tmCalls, client, serverUp, listed, pageVars>>

\* request k: the Reddit API answered 2xx; the handler returns one text item
ApiResponseOk(k, d) ==
    /\ mpc = "serving"
    /\ calls[k].st = "sent"
    /\ calls' = [calls EXCEPT ![k] = Call(calls[k].req, "replied", calls[k].invoked, calls[k].bearer, calls[k].sentRT, <<[content |-> <<[type |-> "text", text |-> JsonText(d)]>>]>>, NoError)]
    /\ UNCHANGED <<now, disk, diskWrites, issued, apc, existing, refreshed, authResult, flowSetup, listening, closeCalls, outcome, timerArmed, handlers, exchangeReqs, lastReq, lastStatus, token, callerVars, saveVars, refreshReqs, env, mpc, exitCode, tmCalls, client, serverUp, listed, pageVars>>

\* request k: the Reddit API answered with an error status and no body
ApiResponseError(k) ==
    /\ mpc = "serving"
    /\ calls[k].st = "sent"
    /\ calls' = [calls EXCEPT ![k] = Call(calls[k].req, "failed", calls[k].invoked, calls[k].bearer, calls[k].sentRT, <<>>, Err("RedditAPIError", "Reddit API error", ""))]
    /\ UNCHANGED <<now, disk, diskWrites, issued, apc, existing, refreshed, authResult, flowSetup, listening, closeCalls, outcome, timerArmed, handlers, exchangeReqs, lastReq, lastStatus, token, callerVars, saveVars, refreshReqs, env, mpc, exitCode, tmCalls, client, serverUp, listed, pageVars>>

\* request k: no reply from the Reddit API
ApiNoResponse(k) ==
    /\ mpc = "serving"
    /\ calls[k].st = "sent"
    /\ calls' = [calls EXCEPT ![k] = Call(calls[k].req, "failed", calls[k].invoked, calls[k].bearer, calls[k].sentRT, <<>>, Err("RedditAPIError", "No response from Reddit API", ""))]
    /\ UNCHANGED <<now, disk, diskWrites, issued, apc, existing, refreshed, authResult, flowSetup, listening, closeCalls, outcome, timerArmed, handlers, exchangeReqs, lastReq, lastStatus, token, callerVars, saveVars, refreshReqs, env, mpc, exitCode, tmCalls, client, serverUp, listed, pageVars>>

\* the tools/list handler
ListTools ==
    /\ mpc = "serving"
    /\ serverUp
    /\ listed' = ToolList
    /\ UNCHANGED <<now, disk, diskWrites, issued, apc, existing, refreshed, authResult, flowSetup, listening, closeCalls, outcome, timerArmed, handlers, exchangeReqs, lastReq, lastStatus, token, callerVars, saveVars, refreshReqs, env, mpc, exitCode, tmCalls, client, serverUp, calls, pageVars>>

\* ============================================================ main (index.ts)
\* (variant: a client id alone selects OAuth)
AuthModeIdOnly(e) == IF e.clientId # "" THEN "oauth" ELSE IF e.manualToken # NoToken THEN "manual" ELSE "none"

\* the branch main takes on the environment
AuthMode(e) == IF e.clientId # "" /\ e.clientSecret # "" THEN "oauth" ELSE IF e.manualToken # NoToken THEN "manual" ELSE "none"

Envs == [clientId : {"", "id"}, clientSecret : {"", "secret"}, manualToken : {NoToken, 90}]

\* credentials authenticate can return: unexpired, inside or outside the
\* refresh lead time
TokenManagerTokens == {StoredToken(1, 1, e, ScopeGranted) : e \in {x \in StoredExpiresAtChoices : x > StartNow}}

\* new RedditMCPServer(); server.setClient(client); await server.run()
startServer(cfg) ==
    /\ client' = <<cfg>>
    /\ serverUp' = TRUE
    /\ mpc' = "serving"

\* main, from its start to its first suspension or to process.exit(1)
MainStart ==
    /\ mpc = "start"
    /\ \/ /\ AuthMode(env) = "oauth"
          /\ tmCalls' = tmCalls + 1
          /\ mpc' = "awaitTokenManager"
          /\ UNCHANGED <<exitCode, client, serverUp>>
       \/ /\ AuthMode(env) = "manual"
          /\ startServer([accessToken |-> env.manualToken, tokenManager |-> FALSE])
          /\ UNCHANGED <<exitCode, tmCalls>>
       \/ /\ AuthMode(env) = "none"
          /\ exitCode' = <<1>>
          /\ mpc' = "exited"
          /\ UNCHANGED <<tmCalls, client, serverUp>>
    /\ UNCHANGED <<now, disk, diskWrites, issued, apc, existing, refreshed, authResult, flowSetup, listening, closeCalls, outcome, timerArmed, handlers, exchangeReqs, lastReq, lastStatus, token, callerVars, saveVars, refreshReqs, env, listed, calls, pageVars>>

\* main: getTokenManager returned a TokenManager holding tok (the steps of
\* authenticate are those of Spec); the client is built on it and the tool
\* server is started
GetTokenManagerReturns(tok) ==
    /\ mpc = "awaitTokenManager"
    /\ token' = <<tok>>
    /\ startServer([accessToken |-> NoToken, tokenManager |-> TRUE])
    /\ UNCHANGED <<now, disk, diskWrites, issued, apc, existing, refreshed, authResult, flowSetup, listening, closeCalls, outcome, timerArmed, handlers, exchangeReqs, lastReq, lastStatus, callerVars, saveVars, refreshReqs, env, exitCode, tmCalls, listed, calls, pageVars>>

\* main: getTokenManager threw; main().catch logs and calls process.exit(1)
GetTokenManagerThrows ==
    /\ mpc = "awaitTokenManager"
    /\ mpc' = "exited"
    /\ exitCode' = <<1>>
    /\ UNCHANGED <<now, disk, diskWrites, issued, apc, existing, refreshed, authResult, flowSetup, listening, closeCalls, outcome, timerArmed, handlers, exchangeReqs, lastReq, lastStatus, token, callerVars, saveVars, refreshReqs, env, tmCalls, client, serverUp, listed, calls, pageVars>>

\* OAuthServer, RedditOAuth and the flow at rest with no token file: the
\* initial state of Spec with disk = FileMissing
AuthAtRest ==
    /\ now = StartNow
    /\ disk = FileMissing
    /\ diskWrites = 0
    /\ issued = 1
    /\ apc = "load"
    /\ existing = <<>>
    /\ refreshed = <<>>
    /\ authResult = <<>>
    /\ flowRuns = 0
    /\ flowState = ""
    /\ listening = FALSE
    /\ listenerBound = FALSE
    /\ browserLaunches = 0
    /\ closeCalls = 0
    /\ outcome = NoOutcome
    /\ timerArmed = FALSE
    /\ deadline = 0
    /\ handlers = [h \in HandlerIds |-> FreeHandler]
    /\ exchangeReqs = 0
    /\ lastReq = <<>>
    /\ lastStatus = NoStatus
    /\ token = <<>>
    /\ pc = [c \in Callers |-> "idle"]
    /\ result = [c \in Callers |-> NoToken]
    /\ sent = [c \in Callers |-> <<>>]
    /\ notified = [c \in Callers |-> 0]
    /\ renewed = [c \in Callers |-> <<>>]
    /\ savesPending = {}
    /\ savesFailed = {}
    /\ listenerCalls = 0
    /\ refreshReqs = 0

\* OAuthServer, RedditOAuth and the flow are not stepped from this state (nor
\* are the writes its update listener starts); main has not run yet
AppInit ==
    /\ AuthAtRest
    /\ env \in Envs
    /\ mpc = "start"
    /\ exitCode = <<>>
    /\ tmCalls = 0
    /\ client = <<>>
    /\ serverUp = FALSE
    /\ listed = <<>>
    /\ calls = [k \in CallIds |-> FreeCall]
    /\ PageIdle

AppNext ==
    \/ MainStart
    \/ \E tok \in TokenManagerTokens : GetTokenManagerReturns(tok)
    \/ GetTokenManagerThrows
    \/ ListTools
    \/ \E k \in CallIds : \E req \in ToolRequests : CallTool(k, req)
    \/ \E k \in CallIds : CallRefreshOk(k)
    \/ \E k \in CallIds : CallRefreshFail(k)
    \/ \E k \in CallIds : \E d \in ApiData : ApiResponseOk(k, d)
    \/ \E k \in CallIds : ApiResponseError(k)
    \/ \E k \in CallIds : ApiNoResponse(k)

AppSpec == AppInit /\ [][AppNext]_vars

\* ================================================ errorPage (oauth-server.ts)
\* texts are sequences of one-character strings
Chars == {"&", "<", ">", "\"", "'", "l", "t", ";"}

\* the error texts of at most MaxLen characters
ErrorTexts == UNION {[1..n -> Chars] : n \in 0..MaxLen}

\* the characters the regular expression /[&<>"']/g matches
SpecialChars == {"&", "<", ">", "\"", "'"}

\* the replacement table of errorPage
Entity == [c \in SpecialChars |->
             CASE c = "&" -> <<"&", "a", "m", "p", ";">>
               [] c = "<" -> <<"&", "l", "t", ";">>
               [] c = ">" -> <<"&", "g", "t", ";">>
               [] c = "\"" -> <<"&", "q", "u", "o", "t", ";">>
               [] c = "'" -> <<"&", "#", "0", "3", "9", ";">>]

\* (variant: the apostrophe is not in the character class)
EscapeCharNoApostrophe(c) == IF c \in SpecialChars \ {"'"} THEN Entity[c] ELSE <<c>>

\* the replacer callback: ({...})[c] || c
EscapeChar(c) == IF c \in SpecialChars THEN Entity[c] ELSE <<c>>

\* error.replace(/[&<>"']/g, ...): every match is replaced, left to right
RECURSIVE Replace(_)
Replace(s) == IF s = <<>> THEN <<>> ELSE EscapeChar(Head(s)) \o Replace(Tail(s))

\* the markup of the template around ${safe}; the rest of the template is
\* fixed text further away
PageBefore == <<"<", "d", "i", "v", " ", "c", "l", "a", "s", "s", "=", "\"", "e", "\"", ">">>
PageAfter == <<"<", "/", "d", "i", "v", ">">>

\* errorPage(error)
errorPage(error) == PageBefore \o Replace(error) \o PageAfter

\* the literal passed when code or state is missing or wrong
InvalidCallbackText == <<"I", "n", "v", "a", "l", "i", "d", " ", "c", "a", "l", "l", "b", "a", "c", "k", " ", "p", "a", "r", "a", "m", "e", "t", "e", "r", "s">>

\* the handler answers a callback carrying an error parameter
RespondErrorParam ==
    /\ pageFor = ""
    /\ errText # <<>>
    /\ page' = <<errorPage(errText[1])>>
    /\ pageFor' = "error"
    /\ UNCHANGED <<now, disk, diskWrites, issued, apc, existing, refreshed, authResult, flowSetup, listening, closeCalls, outcome, timerArmed, handlers, exchangeReqs, lastReq, lastStatus, token, callerVars, saveVars, refreshReqs, appVars, errText>>

\* the handler answers a callback whose code or state is missing or wrong
RespondInvalidCallback ==
    /\ pageFor = ""
    /\ errText' = <<InvalidCallbackText>>
    /\ page' = <<errorPage(InvalidCallbackText)>>
    /\ pageFor' = "invalid"
    /\ UNCHANGED <<now, disk, diskWrites, issued, apc, existing, refreshed, authResult, flowSetup, listening, closeCalls, outcome, timerArmed, handlers, exchangeReqs, lastReq, lastStatus, token, callerVars, saveVars, refreshReqs, appVars>>

\* the handler's catch answers with the message of the thrown error
RespondExchangeError ==
    /\ pageFor = ""
    /\ errText # <<>>
    /\ page' = <<errorPage(errText[1])>>
    /\ pageFor' = "exception"
    /\ UNCHANGED <<now, disk, diskWrites, issued, apc, existing, refreshed, authResult, flowSetup, listening, closeCalls, outcome, timerArmed, handlers, exchangeReqs, lastReq, lastStatus, token, callerVars, saveVars, refreshReqs, appVars, errText>>

\* the text to embed is any text over Chars; nothing else is stepped
PageInit ==
    /\ AuthAtRest
    /\ MainAwaiting
    /\ errText \in {<<s>> : s \in ErrorTexts}
    /\ page = <<>>
    /\ pageFor = ""

PageNext ==
    \/ RespondErrorParam
    \/ RespondInvalidCallback
    \/ RespondExchangeError

PageSpec == PageInit /\ [][PageNext]_vars

\* ================================== RedditMCPServer driven by a host program
\* clients a host can hand to setClient: two with a static access token
Clients == {[accessToken |-> 90, tokenManager |-> FALSE], [accessToken |-> 91, tokenManager |-> FALSE]}

\* setClient(client)
SetClient(c) ==
    /\ serverUp
    /\ client' = <<c>>
    /\ UNCHANGED <<now, disk, diskWrites, issued, apc, existing, refreshed, authResult, flowSetup, listening, closeCalls, outcome, timerArmed, handlers, exchangeReqs, lastReq, lastStatus, token, callerVars, saveVars, refreshReqs, env, mpc, exitCode, tmCalls, serverUp, listed, calls, pageVars>>

\* a RedditMCPServer constructed and connected by a host that has not called
\* setClient yet (the handlers are registered by the constructor); no
\* environment is read and OAuthServer is not used
ServerInit ==
    /\ AuthAtRest
    /\ env = [clientId |-> "", clientSecret |-> "", manualToken |-> NoToken]
    /\ mpc = "serving"
    /\ exitCode = <<>>
    /\ tmCalls = 0
    /\ client = <<>>
    /\ serverUp = TRUE
    /\ listed = <<>>
    /\ calls = [k \in CallIds |-> FreeCall]
    /\ PageIdle

ServerNext ==
    \/ \E c \in Clients : SetClient(c)
    \/ \E k \in CallIds : \E req \in ToolRequests : CallTool(k, req)
    \/ \E k \in CallIds : \E d \in ApiData : ApiResponseOk(k, d)
    \/ \E k \in CallIds : ApiResponseError(k)
    \/ \E k \in CallIds : ApiNoResponse(k)

ServerSpec == ServerInit /\ [][ServerNext]_vars

\* ------------------------------------------------------------------ claims
InFlightRenewals == {c \in Callers : pc[c] = "refreshing"}

\* C1: at every instant at most one renewal request issued by
\* TokenManager.getToken is in flight.
C1_AtMostOneRenewalInFlight == Cardinality(InFlightRenewals) <= 1

\* C2: getToken sends a renewal request if and only if expiresAt - now is below
\* 5 minutes at the call; otherwise it returns the held access token with no
\* request, no listener call and the held credential unchanged.
C2_RenewalIffWithinLeadTime ==
    [][\A c \in Callers : GetToken(c) =>
          IF token[1].expiresAt - now < 5 * 60 * 1000
          THEN /\ refreshReqs' = refreshReqs + 1
               /\ pc'[c] = "refreshing"
               /\ sent'[c] = <<token[1].refreshToken>>
          ELSE /\ refreshReqs' = refreshReqs
               /\ exchangeReqs' = exchangeReqs
               /\ pc'[c] = "returned"
               /\ result'[c] = token[1].accessToken
               /\ token' = token
               /\ listenerCalls' = listenerCalls
               /\ savesPending' = savesPending]_vars

\* C2 witness: one caller was answered from the held credential with no
\* request while another caller's call has a renewal in flight.
C2_Witness == \E c, d \in Callers : pc[c] = "returned" /\ sent[c] = <<>> /\ result[c] = 1 /\ pc[d] = "refreshing"

\* a step in which the getToken call of caller c returns normally
ReturnStep(c) == (GetToken(c) \/ RefreshOk(c)) /\ pc'[c] = "returned"

\* C3: whenever getToken returns normally, the string returned is the access
\* token of the credential held at that moment and that credential's
\* expiresAt is later than the current time.
C3_ReturnedTokenNotExpired ==
    [][\A c \in Callers : ReturnStep(c) =>
          /\ result'[c] = token'[1].accessToken
          /\ token'[1].expiresAt > now']_vars

\* C3 witness: two callers have both returned from calls that each renewed,
\* and the token handed to the later one is the held, unexpired one.
C3_Witness == \E c, d \in Callers : c # d /\ pc[c] = "returned" /\ pc[d] = "returned" /\ renewed[c] # <<>> /\ renewed[d] # <<>> /\ renewed[c] = token /\ result[c] = token[1].accessToken /\ token[1].expiresAt > now

\* C4: a getToken call whose renewal fails returns no token, has sent exactly
\* one renewal request and none on the failure, and neither of its steps
\* changes the held credential or invokes the update listener.
C4_FailedRenewalPropagates ==
    [][\A c \in Callers :
          /\ (GetToken(c) /\ pc'[c] = "refreshing") =>
                /\ refreshReqs' = refreshReqs + 1
                /\ token' = token
                /\ listenerCalls' = listenerCalls
          /\ RefreshFail(c) =>
                /\ pc'[c] = "failed"
                /\ result'[c] = NoToken
                /\ refreshReqs' = refreshReqs
                /\ token' = token
                /\ listenerCalls' = listenerCalls
                /\ savesPending' = savesPending
                /\ disk' = disk]_vars

\* C4 witness: a call has failed; it was not notified and holds no token.
C4_Witness == \E c \in Callers : pc[c] = "failed" /\ result[c] = NoToken /\ notified[c] = 0 /\ renewed[c] = <<>> /\ sent[c] # <<>> /\ listenerCalls = 0 /\ token = authResult

\* C5: when getToken has returned the new access token after a successful
\* renewal whose save does not fail, the persisted record already equals the
\* new held credential.
C5_PersistedBeforeReturn == \A c \in Callers : (pc[c] = "returned" /\ renewed[c] # <<>> /\ renewed[c] = token /\ token[1] \notin savesFailed) => disk = Stringify(token[1])

\* C6: a failing saveToken never aborts or redirects its caller: after the
\* startup refresh authenticate still returns the refreshed credential with
\* no flow, and after a code exchange the flow still resolves with the
\* exchanged credential.
C6_SaveFailureNeverAborts ==
    [][/\ StartupSaveFail => (apc' = "done" /\ authResult' = refreshed /\ flowRuns' = flowRuns)
       /\ \A h \in HandlerIds : (FlowSaveFail(h) /\ outcome.st = "pending") => (outcome'.st = "resolved" /\ outcome'.tok = handlers[h].tok)]_vars

\* C7: with an expired stored credential and a valid refresh response,
\* authenticate returns the refreshed credential and no flow is run: no
\* listener is bound and no browser launch is attempted.
C7_RefreshedWithoutFlow == refreshed # <<>> => (flowRuns = 0 /\ ~listenerBound /\ browserLaunches = 0 /\ apc \in {"startupSave", "done"} /\ (apc = "done" => authResult = refreshed))

\* C8: when loadToken yields a credential with expiresAt > now, authenticate
\* returns exactly that credential with no token-endpoint request, no
\* listener bound and no write to the token file.
C8_ValidStoredReturnedAsIs ==
    [][(AuthLoad /\ loadToken(disk) # <<>> /\ loadToken(disk)[1].expiresAt > now) =>
          /\ apc' = "done"
          /\ authResult' = loadToken(disk)
          /\ refreshReqs' = refreshReqs
          /\ exchangeReqs' = exchangeReqs
          /\ ~listenerBound'
          /\ ~listening'
          /\ disk' = disk
          /\ diskWrites' = diskWrites]_vars

\* C8 witness: authenticate has returned the stored credential; nothing was
\* requested, bound or written.
C8_Witness == apc = "done" /\ existing # <<>> /\ authResult = existing /\ existing[1].expiresAt > now /\ refreshReqs = 0 /\ exchangeReqs = 0 /\ ~listenerBound /\ diskWrites = 0 /\ \A c \in Callers : pc[c] = "idle"

\* C9: authenticate runs the flow exactly when the stored credential is absent
\* or the startup refresh fails, and then returns the flow's result, which
\* has been written to the token file.
C9_FlowExactlyWhenAbsentOrRefreshFails ==
    /\ flowRuns > 0 => (existing = <<>> \/ refreshed = <<>>)
    /\ (apc # "load" /\ existing = <<>>) => flowRuns = 1
    /\ (apc = "done" /\ flowRuns > 0) => (authResult = outcome.tok /\ diskWrites >= 1)

\* the request is a callback without a code or with a state other than the
\* one generated for the flow
BadCodeOrState(req) == req.path = "/callback" /\ (req.code = "" \/ req.state # flowState)

\* C10 as stated: such a callback always fails the flow with 'Invalid callback
\* parameters', sends no code-exchange request and never resolves the flow.
C10_BadCallbackFailsInvalid ==
    [][\A req \in Requests : (HandleRequest(req) /\ BadCodeOrState(req)) =>
          /\ outcome'.st = "rejected"
          /\ outcome'.err = "Invalid callback parameters"
          /\ exchangeReqs' = exchangeReqs]_vars

\* C10 amended: such a callback always fails the flow, with 'Invalid callback
\* parameters' when it carries no error parameter and with the provider's
\* error when it carries one; it closes the listener, sends no code-exchange
\* request and the flow does not resolve.
C10_BadCallbackFailsFlow ==
    [][\A req \in Requests : (HandleRequest(req) /\ BadCodeOrState(req)) =>
          /\ outcome'.st = "rejected"
          /\ outcome'.err = (IF req.error = "" THEN "Invalid callback parameters" ELSE OAuthErrorMessage(req.error))
          /\ outcome'.tok = <<>>
          /\ ~listening'
          /\ authResult' = <<>>
          /\ exchangeReqs' = exchangeReqs]_vars

\* C10 witness: a callback with a code and a foreign state has failed the
\* flow as invalid, and no exchange request was sent.
C10_Witness == lastReq # <<>> /\ lastReq[1].path = "/callback" /\ lastReq[1].error = "" /\ lastReq[1].code = "abc" /\ lastReq[1].state # "" /\ lastReq[1].state # flowState /\ outcome.st = "rejected" /\ outcome.err = "Invalid callback parameters" /\ exchangeReqs = 0

\* the flow's promise is settled
Settled == outcome.st \in {"resolved", "rejected"}

\* C11: in every state in which the flow's outcome is settled (resolved,
\* failed by provider error, invalid callback or exchange error, or timed
\* out) the listener is no longer accepting requests.
C11_SettledImpliesClosed == Settled => (~listening /\ closeCalls >= 1)

\* C11 witness: the flow failed on an exchange error and the listener is closed.
C11_Witness == outcome.st = "rejected" /\ outcome.err = "Token request failed" /\ ~listening /\ lastStatus = 500

\* C12: the timer fires no earlier than 5 minutes after the flow's start; when
\* it fires on a flow that no callback has completed it stops the listener
\* and fails the flow with the timeout error; the flow resolves and requests
\* are handled only up to the deadline, so a callback after the timeout is
\* not processed and cannot resolve the flow.
C12_TimeoutFailsFlow ==
    [][/\ flowRuns' = flowRuns + 1 => deadline' = now + 5 * 60 * 1000
       /\ FlowTimeout =>
             /\ now >= deadline
             /\ ~listening'
             /\ outcome.st = "pending" => (outcome'.st = "rejected" /\ outcome'.err = "Authentication timeout after 5 minutes" /\ outcome'.tok = <<>> /\ authResult' = <<>>)
       /\ (flowRuns > 0 /\ ~timerArmed) => (lastReq' = lastReq /\ outcome' = outcome /\ ~listening')
       /\ (lastReq' # lastReq \/ (outcome.st = "pending" /\ outcome'.st = "resolved")) => now <= deadline]_vars

\* C12 witness: the timer fired on a flow whose exchange was still in flight;
\* the flow failed with the timeout and the listener is closed.
C12_Witness == outcome.st = "rejected" /\ outcome.err = "Authentication timeout after 5 minutes" /\ ~timerArmed /\ ~listening /\ now >= deadline /\ \E h \in HandlerIds : handlers[h].st = "exchanging"

\* the credentials that handlers of the flow obtained from an exchange
ExchangedByFlow == {h \in HandlerIds : handlers[h].st \in {"saving", "done"} /\ handlers[h].tok # <<>>}

\* C13: one flow never sends more than one code-exchange request to the token
\* endpoint and never obtains more than one credential to write.
C13_AtMostOneExchange == exchangeReqs <= 1 /\ Cardinality(ExchangedByFlow) <= 1

\* handler h resumes with an error from exchangeCodeForToken: the request
\* failed or the response has no refresh_token
ExchangeError(h) == ExchangeFail(h) \/ \E resp \in Responses : exchangeThrowsNoRefresh(resp) /\ ExchangeOkWith(h, resp)

\* C14: an exchange response without a refresh_token, and any error raised
\* while exchanging the code, is answered with an error page and rejects the
\* flow so that authenticate fails; the flow never resolves with a credential
\* that lacks a refresh token.
C14_ExchangeErrorFailsFlow ==
    [][/\ \A h \in HandlerIds : ExchangeError(h) => (lastStatus' = 500 /\ outcome'.st = "rejected" /\ apc' = "fatal")
       /\ outcome'.st = "resolved" => outcome'.tok[1].refreshToken # NoRT]_vars

\* C15: a renewal response without a refresh_token leaves refreshToken equal
\* to the one sent in the request, one with a refresh_token replaces it by
\* the returned one, and the refreshToken of the credential is never absent.
C15_RefreshTokenKeptOrReplaced ==
    [][/\ \A c \in Callers : \A resp \in Responses : RefreshOkWith(c, resp) =>
             /\ token'[1].refreshToken = (IF resp.refresh_token = NoRT THEN sent[c][1] ELSE resp.refresh_token)
             /\ token'[1].refreshToken # NoRT
       /\ \A resp \in Responses : StartupRefreshOkWith(resp) =>
             /\ refreshed'[1].refreshToken = (IF resp.refresh_token = NoRT THEN existing[1].refreshToken ELSE resp.refresh_token)
             /\ refreshed'[1].refreshToken # NoRT]_vars

\* C15 witness: after two renewals, the first rotating the refresh token and
\* the second answered without one, the held credential keeps the rotated one.
C15_Witness == \E c \in Callers : pc[c] = "returned" /\ renewed[c] = token /\ token[1].refreshToken = sent[c][1] /\ token[1].refreshToken # 1 /\ token[1].accessToken # token[1].refreshToken

\* C16: a callback to the registered path that carries an error parameter
\* fails the flow with that error code, stops the listener and sends no
\* code-exchange request, whatever code and state it carries.
C16_ErrorParamFailsFlow ==
    [][\A req \in Requests : (HandleRequest(req) /\ req.path = "/callback" /\ req.error # "") =>
          /\ outcome'.st = "rejected"
          /\ outcome'.err = "OAuth error: " \o req.error
          /\ ~listening'
          /\ closeCalls' = closeCalls + 1
          /\ lastStatus' = 400
          /\ exchangeReqs' = exchangeReqs
          /\ handlers' = handlers]_vars

\* C16 witness: a callback carrying an error together with a code and the
\* generated state has failed the flow with the provider's error.
C16_Witness == lastReq # <<>> /\ lastReq[1].path = "/callback" /\ lastReq[1].error = "access_denied" /\ lastReq[1].code = "abc" /\ lastReq[1].state = flowState /\ outcome.st = "rejected" /\ outcome.err = "OAuth error: access_denied" /\ ~listening /\ exchangeReqs = 0

\* C17: a request to any path other than /callback gets a not-found response
\* and changes nothing else: listener, flow outcome, expected state, token
\* file and token-endpoint requests are as before.
C17_OtherPathNotFound ==
    [][\A req \in Requests : (HandleRequest(req) /\ req.path # "/callback") =>
          /\ lastStatus' = 404
          /\ listening'
          /\ UNCHANGED <<now, disk, diskWrites, issued, apc, existing, refreshed, authResult, flowRuns, flowState, listening, listenerBound, browserLaunches, closeCalls, outcome, timerArmed, deadline, handlers, exchangeReqs, token, pc, result, sent, notified, renewed, savesPending, savesFailed, listenerCalls, refreshReqs>>]_vars

\* C17 witness: a request to another path, carrying a code and a state, was
\* answered 404 while the flow is still pending and the listener open.
C17_Witness == lastReq # <<>> /\ lastReq[1].path = "/favicon.ico" /\ lastReq[1].code = "abc" /\ lastReq[1].state = flowState /\ lastStatus = 404 /\ listening /\ outcome.st = "pending" /\ exchangeReqs = 0

\* C18: loadToken yields null, not an error, when the file is missing or
\* cannot be parsed, and authenticate then goes straight to the flow without
\* any refresh request, the same in both cases.
C18_UnreadableFileIsAbsent ==
    [][(AuthLoad /\ disk.kind # "json") =>
          /\ existing' = <<>>
          /\ apc' = "flow"
          /\ flowRuns' = flowRuns + 1
          /\ listening'
          /\ refreshReqs' = refreshReqs
          /\ exchangeReqs' = exchangeReqs
          /\ refreshed' = <<>>
          /\ disk' = disk]_vars

\* C18 witness: with an unparseable file authenticate is in the flow and no
\* refresh request was sent.
C18_Witness == disk = FileCorrupt /\ apc = "flow" /\ existing = <<>> /\ flowRuns = 1 /\ refreshReqs = 0 /\ outcome.st = "pending"

KnownCreds == {existing[i] : i \in DOMAIN existing} \cup {refreshed[i] : i \in DOMAIN refreshed} \cup {authResult[i] : i \in DOMAIN authResult} \cup {token[i] : i \in DOMAIN token} \cup {outcome.tok[i] : i \in DOMAIN outcome.tok} \cup UNION {{handlers[h].tok[i] : i \in DOMAIN handlers[h].tok} : h \in HandlerIds} \cup savesPending \cup savesFailed \cup {loadToken(disk)[i] : i \in DOMAIN loadToken(disk)}

\* C20: every credential produced by a code exchange or a renewal has
\* expiresAt = clock at the processing of the response + expires_in * 1000,
\* and no other step brings a new credential, hence a new expiresAt, into being.
C20_ExpiresAtDerived ==
    [][/\ \A c \in Callers : \A resp \in Responses : RefreshOkWith(c, resp) => token'[1].expiresAt = now + resp.expires_in * 1000
       /\ \A resp \in Responses : StartupRefreshOkWith(resp) => refreshed'[1].expiresAt = now + resp.expires_in * 1000
       /\ \A h \in HandlerIds : \A resp \in Responses : (ExchangeOkWith(h, resp) /\ resp.refresh_token # NoRT) => handlers'[h].tok[1].expiresAt = now + resp.expires_in * 1000
       /\ \/ KnownCreds' \subseteq KnownCreds
          \/ StartupRefreshOk
          \/ \E h \in HandlerIds : ExchangeOk(h)
          \/ \E c \in Callers : RefreshOk(c)]_vars

\* C20 witness: an exchanged credential with a 600 s lifetime is waiting to be
\* saved, its expiresAt 600000 ms after the current clock value.
C20_Witness == \E h \in HandlerIds : handlers[h].st = "saving" /\ handlers[h].tok[1].expiresAt = now + 600 * 1000 /\ now > StartNow

\* the ten tool names of the README and of the tests
RegisteredNames == {"reddit_get_post", "reddit_get_top_posts", "reddit_search", "reddit_get_subreddit_info", "reddit_get_user_info", "reddit_create_post", "reddit_reply", "reddit_edit", "reddit_delete", "reddit_vote"}

\* the tools/call request that call record k holds
RequestOf(k) == calls[k].req[1]

\* C21: a tools/call request whose name is not one of the ten registered names
\* fails with an 'Unknown tool' error naming it and invokes no RedditClient
\* method: at no point of its handling is a method invoked, a bearer token
\* fetched or a renewal requested for it.
C21_UnknownToolFails ==
    \A k \in CallIds : (calls[k].st # "free" /\ client # <<>> /\ RequestOf(k).name \notin RegisteredNames) =>
        /\ calls[k].st = "failed"
        /\ calls[k].error = Err("Error", "Unknown tool: ", RequestOf(k).name)
        /\ calls[k].invoked = <<>>
        /\ calls[k].bearer = <<>>
        /\ calls[k].sentRT = <<>>
        /\ calls[k].reply = <<>>

\* C21 witness: a call of reddit_nonexistent has failed as unknown with nothing
\* invoked.
C21_Witness == \E k \in CallIds : calls[k].st = "failed" /\ calls[k].req = <<[name |-> "reddit_nonexistent", args |-> BuildArgs({}, {}, FALSE)]>> /\ calls[k].error = Err("Error", "Unknown tool: ", "reddit_nonexistent") /\ calls[k].invoked = <<>> /\ client # <<>>

\* the parameter schema that belongs to a registered tool
ToolSchema(name) ==
    CASE name = "reddit_get_post" -> GetPostSchema
      [] name = "reddit_get_top_posts" -> GetTopPostsSchema
      [] name = "reddit_search" -> SearchSchema
      [] name = "reddit_get_subreddit_info" -> GetSubredditInfoSchema
      [] name = "reddit_get_user_info" -> GetUserInfoSchema
      [] name = "reddit_create_post" -> CreatePostSchema
      [] name = "reddit_reply" -> ReplySchema
      [] name = "reddit_edit" -> EditSchema
      [] name = "reddit_delete" -> DeleteSchema
      [] name = "reddit_vote" -> VoteSchema

\* a field that the tool's inputSchema in tools/list requires is missing
MissingRequired(req) == \E i \in DOMAIN ToolList : ToolList[i].name = req.name /\ \E f \in ToolList[i].required : req.args[f] = Absent

\* the arguments of the request fail the schema of the tool it names
FailsSchema(req) == MissingRequired(req) \/ ~SchemaAccepts(ToolSchema(req.name), req.args)

\* C22: a tools/call request for a registered tool whose arguments fail that
\* tool's schema (a required field missing, a value of the wrong type or out
\* of range) fails with an 'Invalid parameters' error and invokes no
\* RedditClient method.
C22_InvalidParametersFail ==
    \A k \in CallIds : (calls[k].st # "free" /\ client # <<>> /\ RequestOf(k).name \in RegisteredNames /\ FailsSchema(RequestOf(k))) =>
        /\ calls[k].st = "failed"
        /\ calls[k].error.class = "Error"
        /\ calls[k].error.prefix = "Invalid parameters: "
        /\ calls[k].invoked = <<>>
        /\ calls[k].bearer = <<>>
        /\ calls[k].sentRT = <<>>
        /\ calls[k].reply = <<>>

\* C22 witness: a reddit_create_post call without its title has failed with
\* 'Invalid parameters' and nothing was invoked.
C22_Witness == \E k \in CallIds : calls[k].st = "failed" /\ RequestOf(k).name = "reddit_create_post" /\ RequestOf(k).args["title"] = Absent /\ RequestOf(k).args["subreddit"] # Absent /\ calls[k].error.prefix = "Invalid parameters: " /\ calls[k].invoked = <<>> /\ calls[k].bearer = <<>> /\ client # <<>>

\* the RedditClient method that corresponds to a registered tool
ExpectedMethod(name) ==
    CASE name = "reddit_get_post" -> "getPost"
      [] name = "reddit_get_top_posts" -> "getTopPosts"
      [] name = "reddit_search" -> "search"
      [] name = "reddit_get_subreddit_info" -> "getSubredditInfo"
      [] name = "reddit_get_user_info" -> "getUserInfo"
      [] name = "reddit_create_post" -> "createPost"
      [] name = "reddit_reply" -> "reply"
      [] name = "reddit_edit" -> "edit"
      [] name = "reddit_delete" -> "delete"
      [] name = "reddit_vote" -> "vote"

\* the names tools/call has a case for, among the listed and the requested ones
AcceptedNames == {n \in {r.name : r \in ToolRequests} \cup {ToolList[i].name : i \in DOMAIN ToolList} : CaseLabel(n) # "default"}

\* C23: tools/list returns exactly ten tools whose names are the names
\* tools/call accepts; a valid call of a listed tool invokes exactly the
\* corresponding RedditClient method, once, with the parsed arguments (the
\* members of the tool's schema as supplied, nothing else) at every point of
\* its handling, and its result is a single text content item.
C23_ListedToolsDispatch ==
    /\ listed # <<>> =>
          /\ Len(listed) = 10
          /\ \A i, j \in DOMAIN listed : listed[i].name = listed[j].name => i = j
          /\ {listed[i].name : i \in DOMAIN listed} = AcceptedNames
          /\ {listed[i].name : i \in DOMAIN listed} = RegisteredNames
    /\ \A k \in CallIds : (calls[k].st # "free" /\ client # <<>> /\ RequestOf(k).name \in RegisteredNames /\ ~FailsSchema(RequestOf(k))) =>
          /\ Len(calls[k].invoked) = 1
          /\ calls[k].invoked[1].method = ExpectedMethod(RequestOf(k).name)
          /\ \A f \in Fields : calls[k].invoked[1].args[f] = (IF f \in {r.field : r \in ToolSchema(RequestOf(k).name)} THEN RequestOf(k).args[f] ELSE Absent)
    /\ \A k \in CallIds : calls[k].st = "replied" =>
          /\ Len(calls[k].invoked) = 1
          /\ Len(calls[k].reply) = 1
          /\ Len(calls[k].reply[1].content) = 1
          /\ calls[k].reply[1].content[1].type = "text"
          /\ calls[k].reply[1].content[1].text \in {JsonText(d) : d \in ApiData}

\* C23 witness: after tools/list, a reddit_search call with every optional
\* member supplied was answered with one text item, search having been
\* invoked once with the supplied limit.
C23_Witness == listed = ToolList /\ \E k \in CallIds : calls[k].st = "replied" /\ RequestOf(k).name = "reddit_search" /\ Len(calls[k].invoked) = 1 /\ calls[k].invoked[1].method = "search" /\ calls[k].invoked[1].args["limit"] = Num(100) /\ calls[k].invoked[1].args["query"] = Str("abc") /\ Len(calls[k].reply[1].content) = 1

\* a complete client id / secret pair is supplied
CompletePair == env.clientId # "" /\ env.clientSecret # ""

\* main has run its first step
MainStarted == mpc # "start"

\* nothing of OAuthServer, TokenManager or the flow was used: no token is
\* loaded or held, no renewal or exchange is requested, no listener is bound,
\* the update listener never ran and the token file is untouched
OAuthUntouched ==
    /\ tmCalls = 0
    /\ token = <<>>
    /\ refreshReqs = 0
    /\ exchangeReqs = 0
    /\ flowRuns = 0
    /\ ~listening
    /\ listenerCalls = 0
    /\ savesPending = {}
    /\ diskWrites = 0
    /\ \A k \in CallIds : calls[k].sentRT = <<>> /\ calls[k].st # "refreshing"

\* C24: the environment selects the authentication mode at startup. With
\* neither a complete client id/secret pair nor a manual token the process
\* exits with code 1 without loading a token, running the flow or starting the
\* tool server; with a manual token and no complete pair the tool server runs
\* on that token and the token store, the refresh operation and the flow are
\* never used; with a complete pair getTokenManager is called once and the
\* client is built on the TokenManager.
C24_AuthModeSelection ==
    MainStarted =>
        /\ (~CompletePair /\ env.manualToken = NoToken) =>
              /\ mpc = "exited"
              /\ exitCode = <<1>>
              /\ client = <<>>
              /\ ~serverUp
              /\ listed = <<>>
              /\ \A k \in CallIds : calls[k].st = "free"
              /\ OAuthUntouched
        /\ (~CompletePair /\ env.manualToken # NoToken) =>
              /\ mpc = "serving"
              /\ exitCode = <<>>
              /\ serverUp
              /\ client = <<[accessToken |-> env.manualToken, tokenManager |-> FALSE]>>
              /\ \A k \in CallIds : calls[k].bearer # <<>> => calls[k].bearer = <<env.manualToken>>
              /\ OAuthUntouched
        /\ CompletePair =>
              /\ tmCalls = 1
              /\ client # <<>> => client[1].tokenManager /\ token # <<>>
              /\ exitCode # <<>> => ~serverUp /\ client = <<>>

\* C24 witness: with a client id but no secret and a manual token, a tool call
\* was answered using the manual token as bearer, and nothing of OAuth ran.
C24_Witness == env = [clientId |-> "id", clientSecret |-> "", manualToken |-> 90] /\ (\E k \in CallIds : calls[k].st = "replied" /\ calls[k].bearer = <<90>>) /\ tmCalls = 0 /\ refreshReqs = 0

\* C24 second case reached: nothing is supplied and the process has exited
\* with code 1.
C24_WitnessExit == env = [clientId |-> "", clientSecret |-> "", manualToken |-> NoToken] /\ mpc = "exited" /\ exitCode = <<1>> /\ ~serverUp

\* the part of a rendered page between the markup around the error text
Embedded(pg) == SubSeq(pg, Len(PageBefore) + 1, Len(pg) - Len(PageAfter))

\* s begins with the characters of p
StartsWith(s, p) == Len(s) >= Len(p) /\ SubSeq(s, 1, Len(p)) = p

\* what a browser shows for escaped text: entities decoded, left to right
RECURSIVE Unescape(_)
Unescape(s) ==
    IF s = <<>> THEN <<>>
    ELSE IF \E c \in SpecialChars : StartsWith(s, Entity[c])
         THEN LET c == CHOOSE x \in SpecialChars : StartsWith(s, Entity[x])
              IN <<c>> \o Unescape(SubSeq(s, Len(Entity[c]) + 1, Len(s)))
         ELSE <<Head(s)>> \o Unescape(Tail(s))

\* C25: the failure page HTML-escapes the embedded error text: whatever the
\* text (from the error query parameter, the fixed literal or an exception's
\* message), the page keeps the template's markup around it, the embedded
\* part contains no < > " ' at all, every & in it begins one of the five
\* entities, and decoding the entities gives back the text.
C25_ErrorPageEscapes ==
    page # <<>> =>
        /\ StartsWith(page[1], PageBefore)
        /\ Len(page[1]) >= Len(PageBefore) + Len(PageAfter)
        /\ SubSeq(page[1], Len(page[1]) - Len(PageAfter) + 1, Len(page[1])) = PageAfter
        /\ \A i \in DOMAIN Embedded(page[1]) : Embedded(page[1])[i] \notin {"<", ">", "\"", "'"}
        /\ \A i \in DOMAIN Embedded(page[1]) : Embedded(page[1])[i] = "&" =>
              \E c \in SpecialChars : StartsWith(SubSeq(Embedded(page[1]), i, Len(Embedded(page[1]))), Entity[c])
        /\ Unescape(Embedded(page[1])) = errText[1]

\* C25 witness: the page for the error parameter <'&" holds the four
\* entities in order and none of the four characters.
C25_Witness == pageFor = "error" /\ errText = <<(<<"<", "'", "&", "\"">>)>> /\ page # <<>> /\ Embedded(page[1]) = Entity["<"] \o Entity["'"] \o Entity["&"] \o Entity["\""]

\* caller c's renewal completed in this step and getToken returned
RenewalSucceeded(c) == pc[c] = "refreshing" /\ pc'[c] = "returned"

\* caller c's renewal failed in this step
RenewalFailed(c) == pc[c] = "refreshing" /\ pc'[c] = "failed"

\* C26: a successful renewal by TokenManager invokes the update listener
\* exactly once, with the credential that has just replaced the held one, in
\* the step in which getToken returns the new access token; the listener is
\* invoked in no other step: not when getToken returns the held token without
\* renewing, not when the renewal fails.
C26_ListenerOncePerRenewal ==
    [][/\ \A c \in Callers : RenewalSucceeded(c) =>
             /\ listenerCalls' = listenerCalls + 1
             /\ notified' = [notified EXCEPT ![c] = notified[c] + 1]
             /\ token' # token
             /\ token'[1] \in savesPending'
             /\ savesPending' = savesPending \cup {token'[1]}
             /\ result'[c] = token'[1].accessToken
       /\ listenerCalls' # listenerCalls => \E c \in Callers : RenewalSucceeded(c)
       /\ savesPending' \ savesPending # {} => \E c \in Callers : RenewalSucceeded(c)
       /\ \A c \in Callers : RenewalFailed(c) => listenerCalls' = listenerCalls /\ savesPending' = savesPending /\ token' = token
       /\ \A c \in Callers : (pc[c] = "idle" /\ pc'[c] = "returned") => listenerCalls' = listenerCalls /\ savesPending' = savesPending /\ token' = token]_vars

\* C26 witness: one caller renewed and one returned the held token; the
\* listener ran once, for the renewing caller, with the credential now held.
C26_Witness == \E c, d \in Callers : c # d /\ pc[c] = "returned" /\ notified[c] = 1 /\ renewed[c] = token /\ pc[d] = "returned" /\ notified[d] = 0 /\ renewed[d] = <<>> /\ listenerCalls = 1 /\ refreshReqs = 1

\* C27: the listener of a flow is torn down exactly once: over the whole run,
\* also after the flow has resolved or failed and the timer fires later,
\* server.close() is called at most one time.
C27_ListenerClosedOnce == closeCalls <= 1

\* the run C27 excludes: the flow resolved, its handler closed the listener,
\* and the timer that was left armed then closed it again
C27_ClosedAgainAfterResolve == outcome.st = "resolved" /\ ~timerArmed /\ closeCalls = 2 /\ apc = "done"

\* C28: no renewal request is outstanding with a refresh token that a
\* completed renewal has replaced: under every interleaving of getToken calls,
\* with a provider that may rotate the refresh token on every renewal, each
\* renewal request in flight carries the refresh token currently held, which
\* is the one most recently issued.
C28_RenewalCarriesCurrentRefreshToken ==
    \A c \in Callers : pc[c] = "refreshing" => sent[c] = <<token[1].refreshToken>>

\* the run C28 excludes: a caller has completed a renewal that rotated the
\* refresh token while another caller's request, sent with the old one, is
\* still in flight
C28_StaleRequestInFlight == \E c, d \in Callers : c # d /\ pc[c] = "returned" /\ renewed[c] = token /\ pc[d] = "refreshing" /\ sent[d] # <<token[1].refreshToken>>

\* the last instant the clock of a run reaches
Horizon == StartNow + MaxTicks * TickMs

\* C29: every flow terminates: once the flow's promise is pending (its
\* deadline lying within the time a run covers), under fair scheduling of the
\* clock and of the timer the flow reaches a resolved or failed outcome, and
\* it has done so at the latest when the timer callback has run.
C29_FlowTerminates ==
    /\ (outcome.st = "pending" /\ deadline <= Horizon) ~> Settled
    /\ [][FlowTimeout => Settled']_vars

\* C29 witness: a flow that received no callback at all was ended by the
\* timer, at its deadline.
C29_Witness == outcome.st = "rejected" /\ outcome.err = "Authentication timeout after 5 minutes" /\ lastReq = <<>> /\ exchangeReqs = 0 /\ closeCalls = 1 /\ ~timerArmed /\ now = deadline /\ deadline <= Horizon /\ \A h \in HandlerIds : handlers[h].st = "free"

\* the HTTP request of call k leaves the client in this step
ApiRequestSent(k) == calls[k].bearer = <<>> /\ calls'[k].bearer # <<>>

\* C30: with a TokenManager configured, the bearer token of every API request
\* is what getToken returned for that request: the access token held when the
\* request is sent, after the renewal getToken awaited if the held one was
\* inside the refresh lead time (such a call sends nothing until the renewal
\* has completed). If getToken fails, the call fails with an error, and its
\* HTTP request is never sent: no bearer token, and no reply.
C30_BearerFromGetToken ==
    /\ [](\A k \in CallIds :
            /\ calls[k].st \in {"sent", "replied"} => calls[k].bearer # <<>>
            /\ calls[k].st = "refreshing" => calls[k].bearer = <<>>
            /\ (calls[k].st = "failed" /\ calls[k].error.prefix = "Request failed: ") =>
                  /\ calls[k].bearer = <<>>
                  /\ calls[k].reply = <<>>
                  /\ calls[k].error.class = "RedditAPIError")
    /\ [][\A k \in CallIds :
            /\ ApiRequestSent(k) =>
                  IF client[1].tokenManager
                  THEN /\ calls'[k].bearer = <<token'[1].accessToken>>
                       /\ IF calls[k].st = "free"
                          THEN token' = token /\ token[1].expiresAt - now >= 5 * 60 * 1000
                          ELSE calls[k].st = "refreshing" /\ token' # token
                  ELSE calls'[k].bearer = <<client[1].accessToken>>
            /\ (calls[k].st = "free" /\ calls'[k].invoked # <<>> /\ client[1].tokenManager /\ token[1].expiresAt - now < 5 * 60 * 1000) =>
                  /\ calls'[k].st = "refreshing"
                  /\ calls'[k].bearer = <<>>
                  /\ refreshReqs' = refreshReqs + 1
            /\ (calls[k].st = "refreshing" /\ calls'[k].st = "failed") =>
                  /\ calls'[k].bearer = <<>>
                  /\ calls'[k].error # NoError
                  /\ token' = token
            /\ calls[k].st = "failed" => calls'[k] = calls[k]]_vars

\* C30 witness: a valid tool call on a client with a TokenManager needed a
\* renewal, the renewal failed, and the call failed without any bearer token.
C30_Witness == client # <<>> /\ client[1].tokenManager /\ \E k \in CallIds : calls[k].st = "failed" /\ calls[k].invoked # <<>> /\ calls[k].sentRT = <<token[1].refreshToken>> /\ calls[k].bearer = <<>> /\ calls[k].error = Err("RedditAPIError", "Request failed: ", "Token request failed")

\* C30 second case reached: a call was sent after its renewal, carrying the
\* renewed access token.
C30_WitnessRenewed == client # <<>> /\ client[1].tokenManager /\ \E k \in CallIds : calls[k].st = "sent" /\ calls[k].sentRT # <<>> /\ calls[k].bearer = <<token[1].accessToken>> /\ listenerCalls = 1

\* TokenManager has renewed at least once and nothing is outstanding: no
\* renewal in flight, no save started by the listener still running, no flow
\* handler still exchanging or saving
RenewalsAndSavesDone ==
    /\ apc = "done"
    /\ listenerCalls > 0
    /\ savesPending = {}
    /\ \A c \in Callers : pc[c] # "refreshing"
    /\ \A h \in HandlerIds : handlers[h].st \notin {"exchanging", "saving"}

\* C31: once all renewals and the saves they started have completed, and no
\* save has failed, the token file holds the credential TokenManager holds,
\* whatever the order in which renewals and saves completed.
C31_StoreMatchesHeldCredential ==
    (RenewalsAndSavesDone /\ savesFailed = {}) => disk = Stringify(token[1])

\* the run C31 excludes: everything has completed without a failed save and
\* the file holds a credential older than the held one
C31_StaleCredentialOnDisk == RenewalsAndSavesDone /\ savesFailed = {} /\ loadToken(disk) # <<>> /\ loadToken(disk)[1].accessToken < token[1].accessToken /\ listenerCalls = 2

\* C32: the outcome of a flow is settled at most once: it leaves "pending"
\* only for "resolved" or "rejected", and once it is resolved, failed or timed
\* out no later callback, exchange completion, save or timer changes its kind,
\* its credential or its reason, nor what authenticate returned.
C32_OutcomeSettledOnce ==
    [][/\ Settled => (outcome' = outcome /\ authResult' = authResult)
       /\ (outcome.st = "pending" /\ outcome' # outcome) => Settled'
       /\ (outcome.st = "pending" /\ outcome'.st = "resolved") => (outcome'.tok # <<>> /\ authResult' = outcome'.tok)
       /\ (outcome.st = "pending" /\ outcome'.st = "rejected") => (outcome'.tok = <<>> /\ outcome'.err # "")]_vars

\* C32 witness: the flow resolved; afterwards a second callback's exchange was
\* answered with 500 and the timer fired, and the outcome is still the
\* resolved one that authenticate returned.
C32_Witness == outcome.st = "resolved" /\ outcome.tok = authResult /\ authResult # <<>> /\ ~timerArmed /\ now >= deadline /\ lastStatus = 500 /\ closeCalls = 3

\* handler h's saveToken completed in this step: the credential it obtained
\* is now in the token file
FlowWrote(h) == handlers[h].st = "saving" /\ handlers'[h].st = "done" /\ diskWrites' = diskWrites + 1

\* C33: a flow that failed or timed out has written nothing to the token
\* file, and a flow writes a credential only when its outcome is resolved
\* with that same credential: under every interleaving of callbacks, exchange
\* completions and the timer.
C33_FlowWritesOnlyResolvedCredential ==
    /\ [](outcome.st = "rejected" => (diskWrites = 0 /\ disk \in InitialFiles))
    /\ [][\A h \in HandlerIds : FlowWrote(h) =>
             /\ disk' = Stringify(handlers[h].tok[1])
             /\ outcome'.st = "resolved"
             /\ outcome'.tok = handlers[h].tok]_vars

\* the run C33 excludes: the flow is resolved with one credential and a
\* handler of the same flow has written another one to the file
C33_OtherCredentialWritten == outcome.st = "resolved" /\ \E h \in HandlerIds : handlers[h].st = "done" /\ handlers[h].tok # <<>> /\ handlers[h].tok # outcome.tok /\ disk = Stringify(handlers[h].tok[1]) /\ diskWrites = 2

\* the handling of request k starts in this step
CallArrives(k) == calls[k].st = "free" /\ calls'[k].st # "free"

\* C34: a tools/call request handled while no client is set fails with
\* 'Reddit client not initialized.' whatever its tool name and arguments
\* (unknown names and invalid arguments included: the test precedes the name
\* lookup and the validation) and invokes nothing. setClient replaces the
\* client, and a request handled afterwards is dispatched on the client set
\* last: it never fails as uninitialized and its API request carries that
\* client's token.
C34_ClientNotInitialized ==
    [][/\ \A k \in CallIds : CallArrives(k) =>
             IF client = <<>>
             THEN /\ calls'[k].st = "failed"
                  /\ calls'[k].error = Err("Error", "Reddit client not initialized.", "")
                  /\ calls'[k].invoked = <<>>
                  /\ calls'[k].bearer = <<>>
             ELSE /\ calls'[k].error.prefix # "Reddit client not initialized."
                  /\ calls'[k].st = "failed" => calls'[k].error.prefix \in {"Unknown tool: ", "Invalid parameters: "}
                  /\ calls'[k].st # "failed" => (calls'[k].invoked # <<>> /\ calls'[k].bearer = <<client[1].accessToken>>)
       /\ \A c \in Clients : (client' # client /\ client' = <<c>>) => (calls' = calls /\ listed' = listed)
       /\ client' # client => client' \in {<<c>> : c \in Clients}
       /\ \A k \in CallIds : calls[k].st = "failed" => calls'[k] = calls[k]]_vars

\* C34 witness: a reddit_nonexistent call arrived before any client was set
\* and failed as uninitialized, not as unknown; a client has been set since.
C34_Witness == client # <<>> /\ \E k \in CallIds : calls[k].st = "failed" /\ RequestOf(k).name = "reddit_nonexistent" /\ calls[k].error = Err("Error", "Reddit client not initialized.", "") /\ calls[k].invoked = <<>>

\* C34 second case reached: two clients were set in turn and the call that
\* followed was sent with the token of the second.
C34_WitnessLastClient == client = <<[accessToken |-> 91, tokenManager |-> FALSE]>> /\ \E k \in CallIds : calls[k].st = "replied" /\ calls[k].bearer = <<91>>

====
